---- MODULE Spec2Model ----
(***************************************************************************)
(* Model of fetch_and_filter_rss.py: one scheduled run loads the store     *)
(* file, fetches the feed through an ordered list of URLs with retries,    *)
(* merges the fetched entries into the loaded mapping, prunes by the       *)
(* retention cutoff and rewrites the store file.                           *)
(*                                                                         *)
(* Spec is main(): fetch_feed() is a call that returns the feed or raises.  *)
(* SpecFetch is fetch_feed() itself, request by request.  SpecFp is        *)
(* fingerprint() applied to two items.  SpecOverlap is two processes       *)
(* running main() on the same file.  SpecWorkflow is the script            *)
(* .github/workflows/fetch_and_filter_rss.py that mirrors into rss.txt.    *)
(*                                                                         *)
(* Time is counted in days.  A hash is modelled by the material it is      *)
(* computed from (sha256 taken as injective).                              *)
(***************************************************************************)
EXTENDS Integers, Sequences, FiniteSets, TLC

VARIABLES
    now,         \* the wall clock, datetime.now(timezone.utc)
    upstream,    \* the entries the remote feed serves
    exists,      \* os.path.exists(OUT_FILE)
    file,        \* the lines of OUT_FILE
    pc,          \* position of the run inside main()
    cutoff,      \* main: cutoff
    existing,    \* main: existing, an insertion-ordered dict, as <<fp, rec>> pairs
    feed,        \* main: feed.entries
    kept,        \* main: kept
    outcome,     \* how the last run ended
    atStart,     \* the store file as the current run found it
    loaded,      \* existing as the load left it, before the merge
    stamp,       \* the clock the merge loop read
    prev,        \* the cutoff and the output of the successful run before
    call,        \* fetch_feed: position of the call
    url,         \* fetch_feed: index in FEED_URLS of the URL being tried
    log,         \* for each URL, the failures of the requests sent to it, in order
    last_exc,    \* fetch_feed: last_exc
    served,      \* the URL whose response fetch_feed parsed and returned
    wf,          \* the run of the workflow script: position, CUT_OFF, lines, rss.txt
    probe,       \* two items and the fingerprints computed of them
    second       \* a run of main() started while the first one is under way

mainVars == <<now, upstream, exists, file, pc, cutoff, existing, feed, kept,
              outcome, atStart, loaded, stamp, prev>>

fetchVars == <<call, url, log, last_exc, served>>

otherVars == <<wf, probe, second>>

vars == <<mainVars, fetchVars, otherVars>>

----------------------------------------------------------------------------
(* Program constants *)

RETENTION_DAYS == 4

\* Retry(total=6, connect=6, read=6): the number of RETRIES urllib3 allows
RetryTotal == 6

FEED_URLS == <<"https", "http">>

(* Bounds of the model *)

MaxClock == 1      \* days the clock advances
MaxFeed == 2       \* entries in the feed
MaxLines == 2      \* lines in the store file before the first run

----------------------------------------------------------------------------
(* Values *)

None == "None"

\* Python truthiness of an optional string: None and "" are falsy
Truthy(s) == s \notin {None, ""}

\* an optional time: <<>> is absent (None), <<t>> is the time t
NoTime == <<>>
Some(t) == <<t>>

\* the clock when the first run starts: the cutoff is then day 1
StartClock == RETENTION_DAYS + 1

\* datetime.isoformat(): the text of a UTC timestamp
IsoFormat(t) == <<"T", t>>

\* a text datetime.fromisoformat() accepts
IsIso(s) == Len(s) = 2 /\ s[1] = "T"

\* datetime.fromisoformat(s), for a text it accepts
FromIso(s) == s[2]

\* the "published" of a stored object: absent, not a timestamp, or a timestamp
NoKey == <<>>
BadText == <<"x">>

----------------------------------------------------------------------------
(* fingerprint() *)

\* entry.get(key): None when the mapping has no such key
Get(item, key) == IF key \in DOMAIN item THEN item[key] ELSE None

\* json.dumps(entry, sort_keys=True): the text lists every key with its value
SortedDump(item) == <<"json", item>>

\* hashlib.sha256(material).hexdigest()
Sha256(material) == <<"sha256", material>>

\* a selection that looks at link before id
MaterialLinkFirst(item) ==
    IF Truthy(Get(item, "link")) THEN <<"str", Get(item, "link")>>
    ELSE IF Truthy(Get(item, "id")) THEN <<"str", Get(item, "id")>>
    ELSE SortedDump(item)

\* the material the hash is taken of: id, else link, else the dump of all fields
Material(item) ==
    IF Truthy(Get(item, "id")) THEN <<"str", Get(item, "id")>>
    ELSE IF Truthy(Get(item, "link")) THEN <<"str", Get(item, "link")>>
    ELSE SortedDump(item)

fingerprint(item) == Sha256(Material(item))

----------------------------------------------------------------------------
(* The insertion-ordered dict of main(), as a sequence of <<key, value>> *)

Keys(map) == {map[k][1] : k \in 1..Len(map)}

Has(map, fp) == fp \in Keys(map)

Lookup(map, fp) == map[CHOOSE k \in 1..Len(map) : map[k][1] = fp][2]

Values(map) == [k \in 1..Len(map) |-> map[k][2]]

\* map[fp] = rec: a new key goes last, a known key keeps its place
Put(map, fp, rec) ==
    IF Has(map, fp)
    THEN [k \in 1..Len(map) |-> IF map[k][1] = fp THEN <<fp, rec>> ELSE map[k]]
    ELSE Append(map, <<fp, rec>>)

----------------------------------------------------------------------------
(* The store file: one JSON text per line *)

\* json.dumps(rec): the line of a record
JsonDumps(rec) == <<"obj", rec>>

\* a line that is no JSON text: json.loads raises JSONDecodeError
TextLine == <<"text">>

\* a line that is a JSON text but no object (a number, a string, null, a list)
ScalarLine == <<"scalar">>

Decodes(line) == line[1] # "text"

IsObject(line) == line[1] = "obj"

\* main, lines 110-118: the loop over the lines of the file.  A line that does
\* not decode is skipped; fingerprint(rec) of a decoded value that is no dict
\* raises AttributeError, which the loop does not catch.
RECURSIVE LoadLines(_, _)
LoadLines(lines, acc) ==
    IF lines = <<>> THEN [ok |-> TRUE, map |-> acc]
    ELSE LET line == Head(lines) IN
         IF ~Decodes(line) THEN LoadLines(Tail(lines), acc)
         ELSE IF ~IsObject(line) THEN [ok |-> FALSE, map |-> acc]
         ELSE LoadLines(Tail(lines), Put(acc, fingerprint(line[2]), line[2]))

\* the mapping loaded from the store, an empty one when there is no file
LoadStore(there, lines) ==
    IF there THEN LoadLines(lines, <<>>) ELSE [ok |-> TRUE, map |-> <<>>]

----------------------------------------------------------------------------
(* Merge and prune *)

\* main, lines 126-131: published_parsed, else updated_parsed, else the clock
Published(e, clock) ==
    IF e.published_parsed # NoTime THEN e.published_parsed[1]
    ELSE IF e.updated_parsed # NoTime THEN e.updated_parsed[1]
    ELSE clock

\* main, lines 136-141: the record made of an entry
NewRecord(e, clock) ==
    [title |-> e.title, link |-> e.link,
     published |-> IsoFormat(Published(e, clock)), summary |-> e.summary]

\* main, line 133: is the entry inside the window
Admits(e, cut, clock) == Published(e, clock) >= cut

\* the merge loop without the test of line 135: the fetched entry overwrites
MergeEntryOverwrites(map, e, cut, clock) ==
    IF Admits(e, cut, clock)
    THEN Put(map, fingerprint(e), NewRecord(e, clock))
    ELSE map

\* main, lines 133-141: one turn of the merge loop
MergeEntry(map, e, cut, clock) ==
    IF Admits(e, cut, clock) /\ ~Has(map, fingerprint(e))
    THEN Put(map, fingerprint(e), NewRecord(e, clock))
    ELSE map

\* main, lines 124-141: the merge loop
RECURSIVE MergeAll(_, _, _, _)
MergeAll(map, entries, cut, clock) ==
    IF entries = <<>> THEN map
    ELSE MergeAll(MergeEntry(map, Head(entries), cut, clock), Tail(entries), cut, clock)

\* rec["published"] is there and fromisoformat accepts it; otherwise line 147
\* raises KeyError or ValueError
Dated(rec) == rec.published # NoKey /\ IsIso(rec.published)

\* the prune with a window one day too long
InWindowOffByOne(rec, cut) == FromIso(rec.published) >= cut - 1

\* main, line 147: the test of the prune
InWindow(rec, cut) == FromIso(rec.published) >= cut

\* main, lines 144-148, run to its end
Prune(map, cut) == SelectSeq(map, LAMBDA p : InWindow(p[2], cut))

\* main, lines 144-148 raise when a value has no usable published
PruneRaises(map) == \E k \in 1..Len(map) : ~Dated(map[k][2])

----------------------------------------------------------------------------
(* The write *)

\* sorted(..., key=published, reverse=True) is stable: records with the same
\* published keep the order of the dict.  The texts isoformat() makes of UTC
\* times sort as the times do.
SortKey(rec) == FromIso(rec.published)

\* a sort that is not stable: a record goes before the records it ties with
InsertDescBeforeTies(sorted, rec) ==
    SelectSeq(sorted, LAMBDA r : SortKey(r) > SortKey(rec))
    \o <<rec>> \o
    SelectSeq(sorted, LAMBDA r : SortKey(r) <= SortKey(rec))

InsertDesc(sorted, rec) ==
    SelectSeq(sorted, LAMBDA r : SortKey(r) >= SortKey(rec))
    \o <<rec>> \o
    SelectSeq(sorted, LAMBDA r : SortKey(r) < SortKey(rec))

RECURSIVE SortedDesc(_)
SortedDesc(recs) ==
    IF recs = <<>> THEN <<>>
    ELSE InsertDesc(SortedDesc(SubSeq(recs, 1, Len(recs) - 1)), recs[Len(recs)])

\* main, lines 152-153: the lines written
WrittenLines(map) ==
    LET recs == SortedDesc(Values(map)) IN [k \in 1..Len(recs) |-> JsonDumps(recs[k])]

----------------------------------------------------------------------------
(* The inputs: what the feed serves and what the store file holds at first *)

Expired == StartClock - RETENTION_DAYS - 1
Boundary == StartClock - RETENTION_DAYS
Fresh == Boundary + 1

\* a feedparser entry: no id, a link, a publication date inside the window
BaseEntry ==
    [id |-> None, link |-> "a", title |-> "t", summary |-> "B",
     published_parsed |-> Some(Fresh), updated_parsed |-> NoTime]

Entries ==
    {BaseEntry,
     [BaseEntry EXCEPT !.id = "g"],
     [BaseEntry EXCEPT !.link = None],
     [BaseEntry EXCEPT !.summary = "A", !.published_parsed = NoTime,
                       !.updated_parsed = Some(Fresh)],
     [BaseEntry EXCEPT !.published_parsed = Some(Expired)],
     [BaseEntry EXCEPT !.published_parsed = NoTime]}

BaseRecord ==
    [title |-> "t", link |-> "a", published |-> IsoFormat(Fresh), summary |-> "A"]

StoreLines ==
    {JsonDumps(BaseRecord),
     JsonDumps([BaseRecord EXCEPT !.published = IsoFormat(Boundary)]),
     JsonDumps([BaseRecord EXCEPT !.published = NoKey]),
     JsonDumps([BaseRecord EXCEPT !.published = BadText]),
     TextLine, ScalarLine}

SeqsUpTo(S, n) == UNION {[1..k -> S] : k \in 0..n}

Feeds == SeqsUpTo(Entries, MaxFeed)

StoreFiles == SeqsUpTo(StoreLines, MaxLines)

NoExc == [url |-> 0, kind |-> "none"]

NoRun == [ok |-> FALSE, cutoff |-> 0, wrote |-> <<>>]

----------------------------------------------------------------------------
(* main() *)

\* the workflow script before it runs: no rss.txt yet
WorkflowOff == [pc |-> "off", CUT_OFF |-> 0, entries |-> <<>>, k |-> 0,
                lines |-> <<>>, rss |-> <<"absent">>]

\* no item drawn yet
NoProbe == [items |-> <<>>, prints |-> <<>>]

\* no second run started
NoSecond == [pc |-> "off", cutoff |-> 0, existing |-> <<>>, feed |-> <<>>,
             kept |-> <<>>, stamp |-> 0, found |-> <<>>, partial |-> FALSE]

Init ==
    /\ now = StartClock
    /\ upstream \in Feeds
    /\ exists \in BOOLEAN
    /\ file \in (IF exists THEN StoreFiles ELSE {<<>>})
    /\ pc = "idle"
    /\ cutoff = 0
    /\ existing = <<>>
    /\ feed = <<>>
    /\ kept = <<>>
    /\ outcome = "none"
    /\ atStart = [exists |-> exists, file |-> file]
    /\ loaded = <<>>
    /\ stamp = now
    /\ prev = NoRun
    /\ call = "off"
    /\ url = 1
    /\ log = [u \in DOMAIN FEED_URLS |-> <<>>]
    /\ last_exc = NoExc
    /\ served = 0
    /\ wf = WorkflowOff
    /\ probe = NoProbe
    /\ second = NoSecond

\* what a run that begins now remembers of the run before it
Before == IF outcome = "ok" THEN [ok |-> TRUE, cutoff |-> cutoff, wrote |-> file] ELSE prev

\* main, lines 104-118, when every line loads
Load ==
    /\ pc = "idle"
    /\ LoadStore(exists, file).ok
    /\ cutoff' = now - RETENTION_DAYS
    /\ existing' = LoadStore(exists, file).map
    /\ loaded' = existing'
    /\ atStart' = [exists |-> exists, file |-> file]
    /\ prev' = Before
    /\ feed' = <<>>
    /\ kept' = <<>>
    /\ outcome' = "running"
    /\ pc' = "fetch"
    /\ UNCHANGED <<now, upstream, exists, file, stamp, fetchVars, otherVars>>

\* main, lines 104-118, when a line makes fingerprint() raise: the run ends
LoadRaises ==
    /\ pc = "idle"
    /\ ~LoadStore(exists, file).ok
    /\ cutoff' = now - RETENTION_DAYS
    /\ existing' = LoadStore(exists, file).map
    /\ loaded' = existing'
    /\ atStart' = [exists |-> exists, file |-> file]
    /\ prev' = Before
    /\ feed' = <<>>
    /\ kept' = <<>>
    /\ outcome' = "load_raised"
    /\ pc' = "idle"
    /\ UNCHANGED <<now, upstream, exists, file, stamp, fetchVars, otherVars>>

\* main, line 121: fetch_feed() returns the parsed feed
FetchReturns ==
    /\ pc = "fetch"
    /\ feed' = upstream
    /\ pc' = "merge"
    /\ UNCHANGED <<now, upstream, exists, file, cutoff, existing, kept, outcome,
                   atStart, loaded, stamp, prev, fetchVars, otherVars>>

\* main, line 121: fetch_feed() raises, no URL having answered; the run ends
FetchRaises ==
    /\ pc = "fetch"
    /\ outcome' = "fetch_raised"
    /\ pc' = "idle"
    /\ UNCHANGED <<now, upstream, exists, file, cutoff, existing, feed, kept,
                   atStart, loaded, stamp, prev, fetchVars, otherVars>>

\* main, lines 124-148: the merge loop, then the prune
MergePrune ==
    /\ pc = "merge"
    /\ stamp' = now
    /\ existing' = MergeAll(existing, feed, cutoff, now)
    /\ ~PruneRaises(existing')
    /\ kept' = Prune(existing', cutoff)
    /\ pc' = "open"
    /\ UNCHANGED <<now, upstream, exists, file, cutoff, feed, outcome, atStart,
                   loaded, prev, fetchVars, otherVars>>

\* main, lines 124-148, when a loaded value has no usable published: the prune
\* raises and the run ends
PruneFails ==
    /\ pc = "merge"
    /\ stamp' = now
    /\ existing' = MergeAll(existing, feed, cutoff, now)
    /\ PruneRaises(existing')
    /\ outcome' = "prune_raised"
    /\ pc' = "idle"
    /\ UNCHANGED <<now, upstream, exists, file, cutoff, feed, kept, atStart,
                   loaded, prev, fetchVars, otherVars>>

\* the file opened for writing before the feed is fetched
OpenFileEarly ==
    /\ pc \in {"fetch", "open"}
    /\ exists' = TRUE
    /\ file' = <<>>
    /\ pc' = IF pc = "open" THEN "write" ELSE pc
    /\ UNCHANGED <<now, upstream, cutoff, existing, feed, kept, outcome, atStart,
                   loaded, stamp, prev, fetchVars, otherVars>>

\* main, line 151: open(OUT_FILE, "w") creates the file or empties it
OpenFile ==
    /\ pc = "open"
    /\ exists' = TRUE
    /\ file' = <<>>
    /\ pc' = "write"
    /\ UNCHANGED <<now, upstream, cutoff, existing, feed, kept, outcome, atStart,
                   loaded, stamp, prev, fetchVars, otherVars>>

\* main, lines 152-155: the records are written and the file is closed
WriteRecords ==
    /\ pc = "write"
    /\ file' = WrittenLines(kept)
    /\ outcome' = "ok"
    /\ pc' = "idle"
    /\ UNCHANGED <<now, upstream, exists, cutoff, existing, feed, kept, atStart,
                   loaded, stamp, prev, fetchVars, otherVars>>

\* a day passes, between two runs or while the fetch waits
Tick ==
    /\ pc \in {"idle", "fetch"}
    /\ now < StartClock + MaxClock
    /\ now' = now + 1
    /\ UNCHANGED <<upstream, exists, file, pc, cutoff, existing, feed, kept,
                   outcome, atStart, loaded, stamp, prev, fetchVars, otherVars>>

Next ==
    \/ Load
    \/ LoadRaises
    \/ FetchReturns
    \/ FetchRaises
    \/ MergePrune
    \/ PruneFails
    \/ OpenFile
    \/ WriteRecords
    \/ Tick

Spec == Init /\ [][Next]_vars

----------------------------------------------------------------------------
(* fetch_feed(), request by request *)

\* how a request can fail: a connection or read error, a status of
\* status_forcelist, any other 4xx or 5xx status
Failures == {"transport", "listed_status", "other_status"}

\* every failure retried alike, whatever the status
RetriedAll(kind) == TRUE

\* what urllib3 retries: connection and read errors of a GET, and the statuses
\* of status_forcelist; another status is handed back at once
Retried(kind) == kind \in {"transport", "listed_status"}

\* Retry.is_exhausted() after the n-th failure: each failure takes one from
\* total, and the retries are spent when total falls below zero
Exhausted(n) == RetryTotal - n < 0

\* a session without the retrying adapters: no request is sent again
SendsOnce(kind, n) == FALSE

\* sess.get() sends the request again after its n-th failure
SendsAgain(kind, n) == Retried(kind) /\ ~Exhausted(n)

\* the first exception kept instead of the last
CaughtFirst(old, u, kind) == IF old = NoExc THEN [url |-> u, kind |-> kind] ELSE old

\* fetch_feed, line 80
Caught(old, u, kind) == [url |-> u, kind |-> kind]

LastUrl == Len(FEED_URLS)

\* fetch_feed, lines 51-71: the call begins with the first URL
CallFetch ==
    /\ call = "off"
    /\ call' = "trying"
    /\ url' = 1
    /\ log' = [u \in DOMAIN FEED_URLS |-> <<>>]
    /\ last_exc' = NoExc
    /\ served' = 0
    /\ UNCHANGED <<mainVars, otherVars>>

\* a request fails and sess.get() sends it again to the same URL
RequestRetried ==
    /\ call = "trying"
    /\ \E kind \in Failures :
        /\ SendsAgain(kind, Len(log[url]) + 1)
        /\ log' = [log EXCEPT ![url] = Append(@, kind)]
    /\ UNCHANGED <<call, url, last_exc, served, mainVars, otherVars>>

\* fetch_feed, lines 74-81: sess.get() or raise_for_status() raises for good,
\* the exception is kept and the loop goes to the next URL
RequestFailsNextUrl ==
    /\ call = "trying"
    /\ url < LastUrl
    /\ \E kind \in Failures :
        /\ ~SendsAgain(kind, Len(log[url]) + 1)
        /\ log' = [log EXCEPT ![url] = Append(@, kind)]
        /\ last_exc' = Caught(last_exc, url, kind)
    /\ url' = url + 1
    /\ UNCHANGED <<call, served, mainVars, otherVars>>

\* fetch_feed, lines 74-83: the same on the last URL: the loop ends and the
\* last exception is raised
RequestFailsRaise ==
    /\ call = "trying"
    /\ url = LastUrl
    /\ \E kind \in Failures :
        /\ ~SendsAgain(kind, Len(log[url]) + 1)
        /\ log' = [log EXCEPT ![url] = Append(@, kind)]
        /\ last_exc' = Caught(last_exc, url, kind)
    /\ call' = "raised"
    /\ UNCHANGED <<url, served, mainVars, otherVars>>

\* fetch_feed, lines 74-76: a request is answered with a 2xx status and the
\* parsed content is returned
RequestSucceeds ==
    /\ call = "trying"
    /\ served' = url
    /\ call' = "returned"
    /\ UNCHANGED <<url, log, last_exc, mainVars, otherVars>>

InitFetch == Init /\ upstream = <<>> /\ ~exists

NextFetch ==
    \/ CallFetch
    \/ RequestRetried
    \/ RequestFailsNextUrl
    \/ RequestFailsRaise
    \/ RequestSucceeds

SpecFetch == InitFetch /\ [][NextFetch]_vars

----------------------------------------------------------------------------
(* Properties of main() *)

Last(q) == q[Len(q)]

Range(q) == {q[k] : k \in 1..Len(q)}

\* the run has finished the merge loop and the prune
Pruned == pc \in {"open", "write"} \/ (pc = "idle" /\ outcome = "ok")

\* the run has finished the merge loop
Merged == Pruned \/ (pc = "idle" /\ outcome = "prune_raised")

\* the run has written the store and ended
Wrote == pc = "idle" /\ outcome = "ok"

\* C1: window correctness.  After the merge and the prune every record of the
\* mapping that is written, and every line of the file once written, has a
\* published not earlier than the cutoff the run computed at its start.
C1_WindowCorrect ==
    /\ Pruned =>
        \A k \in 1..Len(kept) :
            Dated(kept[k][2]) /\ FromIso(kept[k][2].published) >= cutoff
    /\ Wrote =>
        \A k \in 1..Len(file) :
            /\ IsObject(file[k])
            /\ Dated(file[k][2])
            /\ FromIso(file[k][2].published) >= cutoff

\* C1 witness: a run wrote a non-empty store although the store it loaded held
\* a record older than the cutoff and the feed held an entry older than it
C1_Witness ==
    /\ Wrote
    /\ file # <<>>
    /\ \E k \in 1..Len(loaded) :
        Dated(loaded[k][2]) /\ FromIso(loaded[k][2].published) < cutoff
    /\ \E j \in 1..Len(feed) : ~Admits(feed[j], cutoff, stamp)

\* the working mapping when the merge loop reaches the j-th fetched entry
WorkingAt(j) == MergeAll(loaded, SubSeq(feed, 1, j - 1), cutoff, stamp)

\* C2: first-seen-wins.  For every fetched entry whose fingerprint is a key of
\* the working mapping when the merge loop reaches it (a key of the loaded
\* store or one inserted earlier in the loop), the merged mapping holds under
\* that key the record it held then.
C2_FirstSeenWins ==
    Merged =>
        \A j \in 1..Len(feed) :
            LET fp == fingerprint(feed[j]) IN
            Has(WorkingAt(j), fp) =>
                /\ Has(existing, fp)
                /\ Lookup(existing, fp) = Lookup(WorkingAt(j), fp)

\* C2 witness: the store held a record with summary "A", the feed an entry of
\* the same fingerprint inside the window with summary "B", and the merge ended
C2_Witness ==
    /\ Merged
    /\ \E j \in 1..Len(feed) :
        /\ Admits(feed[j], cutoff, stamp)
        /\ feed[j].summary = "B"
        /\ Has(loaded, fingerprint(feed[j]))
        /\ Lookup(loaded, fingerprint(feed[j])).summary = "A"
        /\ Lookup(existing, fingerprint(feed[j])).summary = "A"

\* C3: a run whose fetch fails on every URL ends in failure with the store
\* file as the run found it.
C3_FailedRunLeavesStore ==
    (pc = "idle" /\ outcome = "fetch_raised") =>
        /\ exists = atStart.exists
        /\ file = atStart.file

\* C3 witness: a run that had loaded records of a non-empty store ended by the
\* failure of the fetch
C3_Witness ==
    /\ pc = "idle"
    /\ outcome = "fetch_raised"
    /\ loaded # <<>>
    /\ file # <<>>

\* a line that decodes as a record with a usable published
WellFormed(line) == IsObject(line) /\ Dated(line[2])

\* the records of the well-formed lines of the file the run found
GoodRecords ==
    LET good == SelectSeq(atStart.file, WellFormed) IN
    [k \in 1..Len(good) |-> good[k][2]]

DistinctFingerprints(recs) ==
    \A i, j \in 1..Len(recs) :
        i # j => fingerprint(recs[i]) # fingerprint(recs[j])

\* C8, as claimed: a line that is no well-formed record (no JSON text, a JSON
\* value that is no object, an object without a usable published) is skipped
\* and never ends the run; the load yields exactly the records of the
\* well-formed lines when their fingerprints differ.
C8_MalformedSkipped ==
    /\ outcome \notin {"load_raised", "prune_raised"}
    /\ (pc # "idle" /\ DistinctFingerprints(GoodRecords)) =>
        Values(loaded) = GoodRecords

\* C9, as claimed: merging and pruning the output of the merge and prune once
\* more, with the same entries and the same cutoff, gives the same mapping.
C9_MergeIdempotent ==
    Pruned => Prune(MergeAll(kept, feed, cutoff, stamp), cutoff) = kept

\* C10, as claimed: a successful run that loads the file the successful run
\* before it wrote, with the same feed and the same cutoff, writes the same
\* records, none of them a second time.
C10_RunIdempotent ==
    (/\ Wrote
     /\ prev.ok
     /\ prev.cutoff = cutoff
     /\ atStart.file = prev.wrote)
    => /\ Range(file) = Range(prev.wrote)
       /\ Len(file) = Len(prev.wrote)

----------------------------------------------------------------------------
(* Properties of fetch_feed() *)

\* fetch_feed has left the URL u behind, by going to the next one or by raising
Abandoned(u) == url > u \/ call = "raised"

\* every request the retry policy allows to the URL u has been sent and has
\* failed: the first one and RetryTotal more, or fewer when the last one was
\* answered with a status that is not retried
AllFailed(u) ==
    /\ log[u] # <<>>
    /\ Len(log[u]) = RetryTotal + 1 \/ Last(log[u]) = "other_status"

C5_SixAttempts ==
    (/\ call = "returned"
     /\ served = LastUrl
     /\ log[1] # <<>>
     /\ Range(log[1]) = {"transport"})
    => Len(log[1]) = RetryTotal

C7_RaisesLastCause ==
    /\ call = "raised" =>
        /\ served = 0
        /\ last_exc = [url |-> LastUrl, kind |-> Last(log[LastUrl])]
    /\ call = "returned" => served \in DOMAIN FEED_URLS

\* C7 witness: fetch_feed raised after the two URLs failed in different ways
C7_Witness ==
    /\ call = "raised"
    /\ Last(log[1]) = "transport"
    /\ Last(log[LastUrl]) = "other_status"

----------------------------------------------------------------------------
(* Properties of the mapping and of the written file *)

\* C11, as claimed: in the mapping the merge and prune return, every record
\* is keyed by its own fingerprint, the records loaded from the store and the
\* records made of fetched entries alike.
C11_KeyedByOwnFingerprint ==
    Pruned =>
        \A k \in 1..Len(kept) : fingerprint(kept[k][2]) = kept[k][1]

\* the strings of the model whose sha256 digests are known, in ascending order
\* of the digest: sha256("a") = ca978112..., sha256("g") = cd0aa985...
ByDigest == <<"a", "g">>

Place(q, x) == CHOOSE k \in 1..Len(q) : q[k] = x

\* the digest f is below the digest g, for two digests of strings of ByDigest
DigestBelow(f, g) ==
    /\ f[2][1] = "str" /\ g[2][1] = "str"
    /\ f[2][2] \in Range(ByDigest) /\ g[2][2] \in Range(ByDigest)
    /\ Place(ByDigest, f[2][2]) < Place(ByDigest, g[2][2])

\* the line of r is written somewhere before the line of s
WrittenBefore(r, s) ==
    \E i, j \in 1..Len(file) :
        i < j /\ file[i] = JsonDumps(r) /\ file[j] = JsonDumps(s)

\* C12, as claimed: the file holds one line per record of the mapping, by
\* published descending, and of two records with the same published the one
\* with the lower fingerprint comes first.
C12_TiesByFingerprint ==
    Wrote =>
        /\ Len(file) = Len(kept)
        /\ \A i, j \in 1..Len(file) :
            i < j => SortKey(file[i][2]) >= SortKey(file[j][2])
        /\ \A a, b \in 1..Len(kept) :
            (/\ SortKey(kept[a][2]) = SortKey(kept[b][2])
             /\ DigestBelow(kept[a][1], kept[b][1]))
            => WrittenBefore(kept[a][2], kept[b][2])

\* the lines of q whose published is the day t
OfDay(q, t) == SelectSeq(q, LAMBDA line : SortKey(line[2]) = t)

\* the lines of the records of the mapping, in the order of the mapping
MappingLines == [k \in 1..Len(kept) |-> JsonDumps(kept[k][2])]

\* C12, amended: the file holds one line per record of the mapping, by
\* published descending, and the records with the same published are in the
\* order the mapping holds them in (loaded in file order, then inserted in
\* feed order).
C12_TiesInMappingOrder ==
    Wrote =>
        /\ Len(file) = Len(kept)
        /\ \A i, j \in 1..Len(file) :
            i < j => SortKey(file[i][2]) >= SortKey(file[j][2])
        /\ \A t \in 0..(StartClock + MaxClock) :
            OfDay(file, t) = OfDay(MappingLines, t)

\* C12 witness: a file was written of a mapping that held an older record
\* before a newer one, and two different records of the same published
C12_Witness ==
    /\ Wrote
    /\ \E a, b \in 1..Len(kept) :
        a < b /\ SortKey(kept[a][2]) < SortKey(kept[b][2])
    /\ \E a, b \in 1..Len(kept) :
        /\ a < b
        /\ SortKey(kept[a][2]) = SortKey(kept[b][2])
        /\ kept[a][2] # kept[b][2]

\* C13, as claimed: at every instant of a run, the write in progress included,
\* the file holds the whole store the run found or the whole store the run
\* writes, never less.
C13_AtomicReplace ==
    /\ pc \in {"fetch", "merge", "open"} => file = atStart.file
    /\ pc = "write" => (file = atStart.file \/ file = WrittenLines(kept))
    /\ Wrote => file = WrittenLines(kept)

\* the run began on the file the successful run before it wrote
OnOwnFile == prev.ok /\ atStart.exists /\ atStart.file = prev.wrote

\* C14, as claimed: a record of the file a successful run wrote, whose published
\* is at or after the window start of the next run, is in the file that the
\* next successful run writes, unchanged.
C14_RecordPersists ==
    (Wrote /\ OnOwnFile) =>
        \A k \in 1..Len(atStart.file) :
            (WellFormed(atStart.file[k]) /\ InWindow(atStart.file[k][2], cutoff))
            => atStart.file[k] \in Range(file)

----------------------------------------------------------------------------
(* .github/workflows/fetch_and_filter_rss.py: the script that mirrors the  *)
(* feed into rss.txt, one run from the fetch to the write                  *)

\* line 11: timedelta(days=4)
WorkflowDays == 4

\* lines 43-46: the attributes read of an entry are there
HasAttrs(e) ==
    /\ e.published_parsed # NoTime
    /\ (e.published_parsed[1] >= wf.CUT_OFF => (e.title # None /\ e.link # None))

\* line 46: the line of an entry
RssLine(e) == <<IsoFormat(e.published_parsed[1]), e.title, e.link>>

\* lines 11-33: CUT_OFF is taken and the feed is fetched and parsed
WorkflowFetch ==
    /\ wf.pc = "off"
    /\ wf' = [wf EXCEPT !.pc = "loop", !.CUT_OFF = now - WorkflowDays,
                        !.entries = upstream, !.k = 1]
    /\ UNCHANGED <<mainVars, fetchVars, probe, second>>

\* lines 34-37: the fetch fails, RuntimeError ends the script
WorkflowFetchRaises ==
    /\ wf.pc = "off"
    /\ wf' = [wf EXCEPT !.pc = "fetch_raised", !.CUT_OFF = now - WorkflowDays]
    /\ UNCHANGED <<mainVars, fetchVars, probe, second>>

\* lines 41-46: one entry of the loop
WorkflowEntry ==
    /\ wf.pc = "loop"
    /\ wf.k <= Len(wf.entries)
    /\ HasAttrs(wf.entries[wf.k])
    /\ wf' = [wf EXCEPT
                !.k = wf.k + 1,
                !.lines = IF wf.entries[wf.k].published_parsed[1] >= wf.CUT_OFF
                          THEN Append(wf.lines, RssLine(wf.entries[wf.k]))
                          ELSE wf.lines]
    /\ UNCHANGED <<mainVars, fetchVars, probe, second>>

\* lines 43-46: an attribute of the entry is missing, the script ends with the
\* exception, before line 49
WorkflowEntryRaises ==
    /\ wf.pc = "loop"
    /\ wf.k <= Len(wf.entries)
    /\ ~HasAttrs(wf.entries[wf.k])
    /\ wf' = [wf EXCEPT !.pc = "entry_raised"]
    /\ UNCHANGED <<mainVars, fetchVars, probe, second>>

\* lines 49-50: rss.txt is written
WorkflowWrite ==
    /\ wf.pc = "loop"
    /\ wf.k > Len(wf.entries)
    /\ wf' = [wf EXCEPT !.pc = "done", !.rss = wf.lines]
    /\ UNCHANGED <<mainVars, fetchVars, probe, second>>

InitWorkflow == Init /\ ~exists

NextWorkflow ==
    \/ WorkflowFetch
    \/ WorkflowFetchRaises
    \/ WorkflowEntry
    \/ WorkflowEntryRaises
    \/ WorkflowWrite

SpecWorkflow == InitWorkflow /\ [][NextWorkflow]_vars

----------------------------------------------------------------------------
(* Properties of the dates of an entry *)

\* the entry has neither published_parsed nor updated_parsed
NoDates(e) == e.published_parsed = NoTime /\ e.updated_parsed = NoTime

\* main(): an entry without dates is admitted, and it is in the mapping with
\* published the time of the merge unless its key was there before it
MainSeenNow ==
    Pruned =>
        \A j \in 1..Len(feed) :
            NoDates(feed[j]) =>
                /\ Admits(feed[j], cutoff, stamp)
                /\ (~Has(WorkingAt(j), fingerprint(feed[j])) =>
                        /\ Has(kept, fingerprint(feed[j]))
                        /\ Lookup(kept, fingerprint(feed[j])).published
                            = IsoFormat(stamp))

\* C15, as claimed: an entry that has neither date ends no run: the script
\* that met one goes on to write its output.
C15_NoDatesNeverAborts ==
    /\ MainSeenNow
    /\ (wf.pc # "off" /\ \E j \in 1..Len(wf.entries) : NoDates(wf.entries[j]))
        => wf.pc \in {"loop", "done"}

----------------------------------------------------------------------------
(* fingerprint() applied to two items *)

\* the values of id and of link: absent, empty, and two strings
Hints == {None, "", "a", "g"}
Links == {None, "", "a", "b"}

\* items with an id key (fetched entries) and without one (stored records)
Items ==
    [id : Hints, link : Links, summary : {"A", "B"}]
    \cup [link : Links, summary : {"A", "B"}]

\* two items are taken
Draw ==
    /\ probe.items = <<>>
    /\ \E a, b \in Items : probe' = [items |-> <<a, b>>, prints |-> <<>>]
    /\ UNCHANGED <<mainVars, fetchVars, wf, second>>

\* lines 94-97: fingerprint() is called on each of them
Hash ==
    /\ probe.items # <<>>
    /\ probe.prints = <<>>
    /\ probe' = [probe EXCEPT !.prints = <<fingerprint(probe.items[1]),
                                           fingerprint(probe.items[2])>>]
    /\ UNCHANGED <<mainVars, fetchVars, wf, second>>

InitFp == Init /\ upstream = <<>> /\ ~exists

NextFp == Draw \/ Hash

SpecFp == InitFp /\ [][NextFp]_vars

\* the item has an identity hint / a link: the key is there and its value is
\* a non-empty string
HasHint(item) == "id" \in DOMAIN item /\ item.id # None /\ item.id # ""
HasLink(item) == "link" \in DOMAIN item /\ item.link # None /\ item.link # ""

Hashed == probe.prints # <<>>

\* C16: fingerprint() hashes the id when there is a non-empty one, else the
\* link when there is a non-empty one, else the dump of all the fields; two
\* items with the same non-empty id, or without id and with the same
\* non-empty link, have the same fingerprint whatever their other fields, and
\* equal items have equal fingerprints.
C16_FingerprintSelection ==
    Hashed =>
        LET a == probe.items[1]
            b == probe.items[2]
            fa == probe.prints[1]
            fb == probe.prints[2]
        IN  /\ HasHint(a) => fa = Sha256(<<"str", a.id>>)
            /\ (~HasHint(a) /\ HasLink(a)) => fa = Sha256(<<"str", a.link>>)
            /\ (~HasHint(a) /\ ~HasLink(a)) => fa = Sha256(SortedDump(a))
            /\ (HasHint(a) /\ HasHint(b) /\ a.id = b.id) => fa = fb
            /\ (~HasHint(a) /\ ~HasHint(b) /\ HasLink(a) /\ HasLink(b)
                /\ a.link = b.link) => fa = fb
            /\ a = b => fa = fb

\* C16 witness: two items that differ in link and summary and share a
\* non-empty id were hashed, to the same fingerprint
C16_Witness ==
    /\ Hashed
    /\ HasHint(probe.items[1])
    /\ probe.items[1].id = probe.items[2].id
    /\ HasLink(probe.items[1]) /\ HasLink(probe.items[2])
    /\ probe.items[1].link # probe.items[2].link
    /\ probe.items[1].summary # probe.items[2].summary
    /\ probe.prints[1] = probe.prints[2]

----------------------------------------------------------------------------
(* Properties of the admission and of the load *)

\* the merge loop inserted the j-th fetched entry
InsertedAt(j) == WorkingAt(j + 1) # WorkingAt(j)

\* an entry is inserted only when its published is at or after the cutoff,
\* and with an empty store and the entries [x inside, y outside] the output
\* is the record of x alone
AdmitsAtBoundary ==
    Pruned =>
        /\ \A j \in 1..Len(feed) :
            InsertedAt(j) => Published(feed[j], stamp) >= cutoff
        /\ (/\ loaded = <<>> /\ Len(feed) = 2
            /\ Admits(feed[1], cutoff, stamp) /\ ~Admits(feed[2], cutoff, stamp))
            => kept = <<<<fingerprint(feed[1]), NewRecord(feed[1], stamp)>>>>

\* C17, as claimed: admission is exact at the cutoff, and after the merge and
\* prune every fetched entry whose published is at or after the cutoff has its
\* fingerprint among the keys of the output.
C17_AdmittedRepresented ==
    /\ AdmitsAtBoundary
    /\ Pruned =>
        \A j \in 1..Len(feed) :
            Admits(feed[j], cutoff, stamp) => Has(kept, fingerprint(feed[j]))

\* the mapping last-write-wins gives of a sequence of records: one key per
\* distinct fingerprint, holding the record of the latest line that has it
IsLastWriteWins(map, recs) ==
    /\ Keys(map) = {fingerprint(recs[k]) : k \in 1..Len(recs)}
    /\ Len(map) = Cardinality({fingerprint(recs[k]) : k \in 1..Len(recs)})
    /\ \A k \in 1..Len(recs) :
        (\A l \in (k + 1)..Len(recs) : fingerprint(recs[l]) # fingerprint(recs[k]))
        => Lookup(map, fingerprint(recs[k])) = recs[k]

\* the load of the file the run found came to its end
Loaded == pc # "idle" \/ outcome \in {"ok", "fetch_raised", "prune_raised"}

\* the load is last-write-wins over the lines that decode to an object
LoadsObjectsLastWins ==
    Loaded =>
        /\ ~atStart.exists => loaded = <<>>
        /\ LET objs == SelectSeq(atStart.file, IsObject) IN
           IsLastWriteWins(loaded, [k \in 1..Len(objs) |-> objs[k][2]])

\* C18, as claimed: the loaded mapping is last-write-wins over the well-formed
\* lines of the file, it holds as many records as these lines have distinct
\* fingerprints, and a missing file loads as the empty mapping.
C18_LastWriteWins ==
    Loaded =>
        /\ ~atStart.exists => loaded = <<>>
        /\ IsLastWriteWins(loaded, GoodRecords)

----------------------------------------------------------------------------
(* Two overlapping runs of main(): the scheduler starts a second process   *)
(* while the first one has loaded the store and has not yet written it.    *)
(* The two share the file, the clock and the remote feed.                  *)

\* the first run starts, once
FirstLoad == Load /\ outcome = "none"

\* main, lines 104-118, in the second process
Load2 ==
    /\ second.pc = "off"
    /\ pc \in {"fetch", "merge", "open", "write"}
    /\ LoadStore(exists, file).ok
    /\ second' = [second EXCEPT !.pc = "fetch",
                                !.cutoff = now - RETENTION_DAYS,
                                !.existing = LoadStore(exists, file).map,
                                !.found = file,
                                !.partial = (pc = "write")]
    /\ UNCHANGED <<mainVars, fetchVars, wf, probe>>

\* main, line 121, in the second process
FetchReturns2 ==
    /\ second.pc = "fetch"
    /\ second' = [second EXCEPT !.pc = "merge", !.feed = upstream]
    /\ UNCHANGED <<mainVars, fetchVars, wf, probe>>

\* main, lines 124-148, in the second process
MergePrune2 ==
    /\ second.pc = "merge"
    /\ LET merged == MergeAll(second.existing, second.feed, second.cutoff, now) IN
        /\ ~PruneRaises(merged)
        /\ second' = [second EXCEPT !.pc = "open", !.stamp = now,
                                    !.existing = merged,
                                    !.kept = Prune(merged, second.cutoff)]
    /\ UNCHANGED <<mainVars, fetchVars, wf, probe>>

\* main, line 151, in the second process
OpenFile2 ==
    /\ second.pc = "open"
    /\ exists' = TRUE
    /\ file' = <<>>
    /\ second' = [second EXCEPT !.pc = "write"]
    /\ UNCHANGED <<now, upstream, pc, cutoff, existing, feed, kept, outcome,
                   atStart, loaded, stamp, prev, fetchVars, wf, probe>>

\* main, lines 152-155, in the second process
WriteRecords2 ==
    /\ second.pc = "write"
    /\ file' = WrittenLines(second.kept)
    /\ second' = [second EXCEPT !.pc = "done"]
    /\ UNCHANGED <<now, upstream, exists, pc, cutoff, existing, feed, kept,
                   outcome, atStart, loaded, stamp, prev, fetchVars, wf, probe>>

\* the feeds of at most one entry
ShortFeeds == {f \in Feeds : Len(f) <= 1}

\* the remote feed publishes something else
FeedChanges ==
    /\ upstream' \in ShortFeeds \ {upstream}
    /\ UNCHANGED <<now, exists, file, pc, cutoff, existing, feed, kept, outcome,
                   atStart, loaded, stamp, prev, fetchVars, otherVars>>

\* a store of at most one line, well-formed, and a feed of at most one entry
InitOverlap ==
    /\ Init
    /\ upstream \in ShortFeeds
    /\ Len(file) <= 1
    /\ \A k \in 1..Len(file) : WellFormed(file[k])

NextOverlap ==
    \/ FirstLoad
    \/ FetchReturns
    \/ MergePrune
    \/ OpenFile
    \/ WriteRecords
    \/ Load2
    \/ FetchReturns2
    \/ MergePrune2
    \/ OpenFile2
    \/ WriteRecords2
    \/ FeedChanges

SpecOverlap == InitOverlap /\ [][NextOverlap]_vars

\* both runs have written and ended
BothDone == Wrote /\ second.pc = "done"

\* the lines either run wrote
WrittenByEither == Range(WrittenLines(kept)) \cup Range(WrittenLines(second.kept))

\* after both runs the file holds every record of the store the first run
\* found that is inside the window, and every line either run wrote
NothingLost ==
    /\ \A k \in 1..Len(atStart.file) :
        InWindow(atStart.file[k][2], cutoff) => atStart.file[k] \in Range(file)
    /\ WrittenByEither \subseteq Range(file)

\* C19, as claimed: when a run starts while the run before it has loaded the
\* store and not yet written it, then after both have ended the store holds
\* every record inside the window that it held before them and every record
\* either run wrote.
C19_OverlapLosesNothing == BothDone => NothingLost

\* the same when the second run did not read the file between the open and
\* the write of the first
LostUpdateOnly == (BothDone /\ ~second.partial) => NothingLost

====
